---- MODULE Spec2Model ----
(***************************************************************************)
(* display.h: the format-string scanner (find_format_specifiers) and the   *)
(* two render drivers (display_vprint, display_vfprint) with their line    *)
(* and variadic wrappers.                                                  *)
(*                                                                         *)
(* A template is a sequence of one-character strings.  The byte that ends  *)
(* a C string is the character NUL; it is not part of the sequence, it is  *)
(* the byte stored right after it.  Positions are 1-based: the C pointer   *)
(* format + k is position k + 1.                                           *)
(*                                                                         *)
(* malloc and realloc are taken to succeed (lines 242-245 and 332-335 are  *)
(* not modelled).                                                          *)
(***************************************************************************)
EXTENDS Integers, Sequences, FiniteSets, TLC

(***************************************************************************)
(* Bounds of the model.                                                    *)
(***************************************************************************)
\* longest template enumerated over Alphabet
MaxLen == 3
\* most bytes of mapped memory that follow the template's terminator
MaxTail == 2

(***************************************************************************)
(* Characters.                                                             *)
(***************************************************************************)
NUL == "NUL"
\* what a read of unmapped memory meets: the read faults
OOB == "OOB"
NULLPTR == "NULL"

Digits == {"0", "1", "2", "3", "4", "5", "6", "7", "8", "9"}

\* strchr(s, c) finds the terminator of s too: strchr("-+ #0", '\0') != NULL
StrChr(set, c) == c \in set \/ c = NUL

FlagChars == {"-", "+", " ", "#", "0"}
LengthChars == {"h", "l", "j", "z", "t", "L"}
SpecifierChars == {"d", "i", "o", "u", "x", "X", "e", "E", "f", "F", "g", "G",
                   "a", "A", "c", "s", "p", "n", "%"}

isdigit(c) == c \in Digits

(***************************************************************************)
(* Memory: the template, its terminator, then the bytes that happen to     *)
(* follow it in the address space, then unmapped memory.                   *)
(***************************************************************************)
Memory(fmt, tl) == fmt \o <<NUL>> \o tl

At(m, i) == IF i >= 1 /\ i <= Len(m) THEN m[i] ELSE OOB

(***************************************************************************)
(* enum var_type                                                           *)
(***************************************************************************)
PointerIntTags == {"TYPE_POINTER_SIGNED_INT8", "TYPE_POINTER_SHORT", "TYPE_POINTER_INT",
                   "TYPE_POINTER_LONG", "TYPE_POINTER_LONG_LONG", "TYPE_POINTER_INTMAX_T",
                   "TYPE_POINTER_SSIZE_T", "TYPE_POINTER_PTRDIFF_T"}
SignedTags == {"TYPE_SIGNED_INT8", "TYPE_SHORT", "TYPE_INT", "TYPE_LONG", "TYPE_LONG_LONG",
               "TYPE_INTMAX_T", "TYPE_SSIZE_T", "TYPE_PTRDIFF_T"}
UnsignedTags == {"TYPE_UINT8", "TYPE_USHORT", "TYPE_UINT", "TYPE_ULONG", "TYPE_ULONG_LONG",
                 "TYPE_UINTMAX_T", "TYPE_SIZE_T"}
FloatTags == {"TYPE_FLOAT", "TYPE_DOUBLE", "TYPE_LONG_DOUBLE"}
var_type == FloatTags \cup {"TYPE_POINTER", "TYPE_STRING"} \cup PointerIntTags
              \cup SignedTags \cup UnsignedTags \cup {"TYPE_NONE"}

(***************************************************************************)
(* find_format_specifiers: the parse of one marker, lines 189-248.         *)
(***************************************************************************)
RECURSIVE SkipFlags(_, _)
\* the loop over the flag characters "-+ #0", line 194
SkipFlags(m, i) == IF StrChr(FlagChars, At(m, i)) THEN SkipFlags(m, i + 1) ELSE i

RECURSIVE SkipDigits(_, _)
\* the loop over a digit run, lines 202 and 213
SkipDigits(m, i) == IF isdigit(At(m, i)) THEN SkipDigits(m, i + 1) ELSE i

\* Width: numbers or *
SkipWidth(m, i) == IF At(m, i) = "*" THEN i + 1 ELSE SkipDigits(m, i)

\* Precision
SkipPrecision(m, i) ==
  IF At(m, i) = "."
    THEN IF At(m, i + 1) = "*" THEN i + 2 ELSE SkipDigits(m, i + 1)
    ELSE i

\* char length[3] as a C string: the characters before its first '\0'
LengthToken(m, i) ==
  IF StrChr(LengthChars, At(m, i))
    THEN IF At(m, i + 1) \in {"h", "l"} /\ At(m, i) \in {"h", "l"}
           THEN [str |-> <<At(m, i), At(m, i + 1)>>, next |-> i + 2]
           ELSE [str |-> IF At(m, i) = NUL THEN <<>> ELSE <<At(m, i)>>, next |-> i + 1]
    ELSE [str |-> <<>>, next |-> i]

\* if (strchr("diouxXeEfFgGaAcspn%", specifier))
SpecifierAccepted(c) == StrChr(SpecifierChars, c)

RECURSIVE CString(_, _, _)
\* strncpy(sub, start, len); sub[len] = '\0': what sub holds as a C string
CString(m, from, to) ==
  IF from >= to \/ At(m, from) \in {NUL, OOB}
    THEN <<>>
    ELSE <<At(m, from)>> \o CString(m, from + 1, to)

\* a scan that goes back to the '%' of a marker it could not read
MalformedResumeAtStart(start, q) == start

\* where the scan goes on after a marker with no recognized conversion letter
MalformedResume(start, q) == q

ParseMarker(m, start) ==
  LET a == SkipFlags(m, start + 1)
      b == SkipWidth(m, a)
      c == SkipPrecision(m, b)
      lt == LengthToken(m, c)
      specifier == At(m, lt.next)
      ok == SpecifierAccepted(specifier)
  IN [ok |-> ok,
      length |-> lt.str,
      specifier |-> specifier,
      last |-> lt.next,
      fault |-> specifier = OOB,
      next |-> IF ok THEN lt.next + 1 ELSE MalformedResume(start, lt.next),
      substr |-> CString(m, start, lt.next + 1)]

(***************************************************************************)
(* find_format_specifiers: "Get type", lines 250-326.                      *)
(***************************************************************************)
ReferenceType(length) ==
  CASE length = <<"h", "h">> -> "TYPE_POINTER_SIGNED_INT8"
    [] length = <<"h">> -> "TYPE_POINTER_SHORT"
    [] length = <<>> -> "TYPE_POINTER_INT"
    [] length = <<"l">> -> "TYPE_POINTER_LONG"
    [] length = <<"l", "l">> -> "TYPE_POINTER_LONG_LONG"
    [] length = <<"j">> -> "TYPE_POINTER_INTMAX_T"
    [] length = <<"z">> -> "TYPE_POINTER_SSIZE_T"
    [] length = <<"t">> -> "TYPE_POINTER_PTRDIFF_T"
    [] OTHER -> "TYPE_POINTER_INT"

SignedType(length) ==
  CASE length = <<"h", "h">> -> "TYPE_SIGNED_INT8"
    [] length = <<"h">> -> "TYPE_SHORT"
    [] length = <<>> -> "TYPE_INT"
    [] length = <<"l">> -> "TYPE_LONG"
    [] length = <<"l", "l">> -> "TYPE_LONG_LONG"
    [] length = <<"j">> -> "TYPE_INTMAX_T"
    [] length = <<"z">> -> "TYPE_SSIZE_T"
    [] length = <<"t">> -> "TYPE_PTRDIFF_T"
    [] OTHER -> "TYPE_INT"

UnsignedType(length) ==
  CASE length = <<"h", "h">> -> "TYPE_UINT8"
    [] length = <<"h">> -> "TYPE_USHORT"
    [] length = <<>> -> "TYPE_UINT"
    [] length = <<"l">> -> "TYPE_ULONG"
    [] length = <<"l", "l">> -> "TYPE_ULONG_LONG"
    [] length = <<"j">> -> "TYPE_UINTMAX_T"
    [] length = <<"z">> -> "TYPE_SIZE_T"
    [] length = <<"t">> -> "TYPE_PTRDIFF_T"
    [] OTHER -> "TYPE_UINT"

\* a resolution that ignores the L modifier
FloatTypeDoubleOnly(length) == "TYPE_DOUBLE"

FloatType(length) ==
  IF length = <<"L">> THEN "TYPE_LONG_DOUBLE" ELSE "TYPE_DOUBLE"

\* enum var_type type = -1; the if/else-if chain on the specifier
ResolveType(length, specifier) ==
  IF specifier = "%" THEN "TYPE_NONE"
  ELSE IF specifier = "p" THEN "TYPE_POINTER"
  ELSE IF specifier = "c" THEN "TYPE_INT"
  ELSE IF specifier = "s" THEN "TYPE_STRING"
  ELSE IF specifier = "n" THEN ReferenceType(length)
  ELSE IF StrChr({"d", "i"}, specifier) THEN SignedType(length)
  ELSE IF StrChr({"o", "u", "x", "X"}, specifier) THEN UnsignedType(length)
  ELSE IF StrChr({"e", "E", "f", "F", "g", "G", "a", "A"}, specifier) THEN FloatType(length)
  ELSE "-1"

(***************************************************************************)
(* The arguments a caller can pass, by the C type va_arg asks for.         *)
(***************************************************************************)
IntArgs == {5, 12}
StringArgs == {<<"o", "k">>}

\* display_fn / fdisplay_fn of a caller's struct: a function that renders
\* "OK" and returns the 2 characters printed, one that fails with -1, or NULL
RenderFns == {"render_ok", "render_fail"}

CallRender(fn) ==
  IF fn = "render_ok" THEN [ret |-> 2, text |-> <<"O", "K">>]
                      ELSE [ret |-> -1, text |-> <<>>]

\* display_t * values: the null pointer, or a struct with its three fields
DisplayStruct(f, g, s) == [null |-> FALSE, display_fn |-> f, fdisplay_fn |-> g, self |-> s]
NullDisplay == [null |-> TRUE, display_fn |-> NULLPTR, fdisplay_fn |-> NULLPTR, self |-> NULLPTR]
DisplayArgs ==
  {NullDisplay,
   DisplayStruct("render_ok", "render_ok", "obj"),
   DisplayStruct("render_ok", NULLPTR, "obj"),
   DisplayStruct(NULLPTR, "render_ok", "obj"),
   DisplayStruct("render_ok", "render_ok", NULLPTR),
   DisplayStruct("render_fail", "render_fail", "obj")}

\* the type named in va_arg(args, T) for each case of the switch
VaType(type) ==
  CASE type \in {"TYPE_INT", "TYPE_SIGNED_INT8", "TYPE_SHORT"} -> "int"
    [] type = "TYPE_LONG" -> "long"
    [] type = "TYPE_LONG_LONG" -> "long long"
    [] type = "TYPE_INTMAX_T" -> "intmax_t"
    [] type = "TYPE_SSIZE_T" -> "ssize_t"
    [] type = "TYPE_PTRDIFF_T" -> "ptrdiff_t"
    [] type \in {"TYPE_UINT", "TYPE_UINT8", "TYPE_USHORT"} -> "unsigned int"
    [] type = "TYPE_ULONG" -> "unsigned long"
    [] type = "TYPE_ULONG_LONG" -> "unsigned long long"
    [] type = "TYPE_UINTMAX_T" -> "uintmax_t"
    [] type = "TYPE_SIZE_T" -> "size_t"
    [] type = "TYPE_POINTER" -> "void *"
    [] type = "TYPE_STRING" -> "char *"
    [] type = "TYPE_POINTER_INT" -> "int *"
    [] type = "TYPE_POINTER_SIGNED_INT8" -> "signed char *"
    [] type = "TYPE_POINTER_SHORT" -> "short *"
    [] type = "TYPE_POINTER_LONG" -> "long *"
    [] type = "TYPE_POINTER_LONG_LONG" -> "long long *"
    [] type = "TYPE_POINTER_INTMAX_T" -> "intmax_t *"
    [] type = "TYPE_POINTER_SSIZE_T" -> "ssize_t *"
    [] type = "TYPE_POINTER_PTRDIFF_T" -> "ptrdiff_t *"
    [] type \in {"TYPE_FLOAT", "TYPE_DOUBLE"} -> "double"
    [] type = "TYPE_LONG_DOUBLE" -> "long double"
    [] OTHER -> "none"

IntegerCTypes == {"int", "long", "long long", "intmax_t", "ssize_t", "ptrdiff_t",
                  "unsigned int", "unsigned long", "unsigned long long", "uintmax_t",
                  "size_t"}

\* the values the caller may have put at the cursor for a va_arg of that type
ArgValues(ctype) ==
  IF ctype \in IntegerCTypes THEN IntArgs
  ELSE IF ctype = "char *" THEN StringArgs
  ELSE {ctype}

\* case TYPE_NONE: break;  -- the only case that takes nothing from the cursor
ConsumesArg(type) == type # "TYPE_NONE"

\* the cases "Reference %n": a store through the pointer, no printf
IsWriteCount(type) == type \in PointerIntTags

(***************************************************************************)
(* printf(substr, arg): what libc writes.  Decimal conversions and %s are  *)
(* computed, with the '-' flag and a width; every other directive writes   *)
(* one token standing for the rendering of a value of that C type.         *)
(***************************************************************************)
DigitChar(k) ==
  CASE k = 0 -> "0" [] k = 1 -> "1" [] k = 2 -> "2" [] k = 3 -> "3" [] k = 4 -> "4"
    [] k = 5 -> "5" [] k = 6 -> "6" [] k = 7 -> "7" [] k = 8 -> "8" [] OTHER -> "9"

DigitVal(c) ==
  CASE c = "0" -> 0 [] c = "1" -> 1 [] c = "2" -> 2 [] c = "3" -> 3 [] c = "4" -> 4
    [] c = "5" -> 5 [] c = "6" -> 6 [] c = "7" -> 7 [] c = "8" -> 8 [] OTHER -> 9

RECURSIVE Decimal(_)
Decimal(n) == IF n < 10 THEN <<DigitChar(n)>> ELSE Decimal(n \div 10) \o <<DigitChar(n % 10)>>

RECURSIVE Number(_, _, _)
\* the value of the digit run s[i..j-1]
Number(s, i, j) == IF i >= j THEN 0 ELSE Number(s, i, j - 1) * 10 + DigitVal(s[j - 1])

RECURSIVE Spaces(_)
Spaces(n) == IF n <= 0 THEN <<>> ELSE <<" ">> \o Spaces(n - 1)

Pad(body, width, left) ==
  IF left THEN body \o Spaces(width - Len(body)) ELSE Spaces(width - Len(body)) \o body

Printf(substr, ctype, arg) ==
  LET a == SkipFlags(substr, 2)
      b == SkipDigits(substr, a)
      conv == substr[Len(substr)]
      flags == {substr[i] : i \in 2..(a - 1)}
      plain == flags \subseteq {"-"} /\ b = Len(substr)
  IN IF plain /\ conv \in {"d", "i", "u"} /\ ctype \in {"int", "unsigned int"}
       THEN Pad(Decimal(arg), Number(substr, a, b), "-" \in flags)
     ELSE IF plain /\ conv = "s" /\ ctype = "char *"
       THEN Pad(arg, Number(substr, a, b), "-" \in flags)
     ELSE <<ctype>>

(***************************************************************************)
(* The calls explored: which entry point, which template, which stream.    *)
(***************************************************************************)
StdoutApis == {"display_vprint", "display_vprintln", "display_print", "display_println"}
StreamApis == {"display_vfprint", "display_vfprintln", "display_fprint", "display_fprintln"}
LineApis == {"display_vprintln", "display_println", "display_vfprintln", "display_fprintln"}
Apis == StdoutApis \cup StreamApis

Alphabet == {"%", "d", "k", "{", "}"}
BoundedTemplates == UNION {[1..n -> Alphabet] : n \in 0..MaxLen}

\* "%" length conversion, for every length token the scanner can build
LengthTokens == {<<>>, <<"h">>, <<"h", "h">>, <<"l">>, <<"l", "l">>, <<"j">>, <<"z">>,
                 <<"t">>, <<"L">>, <<"h", "l">>, <<"l", "h">>}
MarkerTemplates == {<<"%">> \o l \o <<c>> : l \in LengthTokens, c \in SpecifierChars}

Scenario1 == <<"%", "d", "-", "%", "s", " ", "{", "}", " ", "e", "n", "d">>
Scenario2 == <<"1", "0", "0", "%", "%", " ", "d", "o", "n", "e">>
NamedTemplates ==
  {Scenario1, Scenario2,
   <<"%", "k", "%", "d">>,
   <<"%", "k", "{", "}", "%", "d">>,
   <<"%", "{", "}", "%", "5", "d">>,
   <<"%", "k", "%", "%", "%", "5", "d">>,
   <<"%", "k", "%", "5", "%", "%", "d">>,
   <<"%", "d", "%", "k", "%", "%">>,
   <<"%", "-", "5", "d", "|", "%", "3", "s">>,
   <<"%", "d", "{", "}", "%", "n", "{", "}">>,
   <<"{", "}", "{", "}">>,
   <<"%", ".", "3", "f", "%", "5", "%">>,
   <<"a", "%", "5">>, <<"%", "-">>, <<"%", ".", "3">>, <<"%", "l">>, <<"%", "5", "k">>}

Templates == BoundedTemplates \cup MarkerTemplates \cup NamedTemplates

\* const char *format: NULL, or a NUL-terminated string
Formats == {[null |-> TRUE, text |-> <<>>]} \cup {[null |-> FALSE, text |-> t] : t \in Templates}

\* the bytes after the terminator, when a read runs past it
TailBytes == {NUL, "d", "k", "%"}
TailChoices == UNION {[1..n -> TailBytes] : n \in 0..MaxTail}
                 \cup {<<"k", "%", "d", NUL>>}

(***************************************************************************)
(* State.                                                                  *)
(***************************************************************************)
VARIABLES
  api,          \* the entry point called
  format,       \* its format argument
  file,         \* its FILE * argument (stream entry points)
  tail,         \* the bytes after the terminator, once a read has run past it
  past,         \* whether a read has run past the terminator
  pc,           \* "call", "scan", "drive", "newline", "done", "crashed"
  sp,           \* find_format_specifiers: p
  specs,        \* find_format_specifiers: specs, a sequence of [substr, type]
  starts,       \* history: where in the template each entry of specs was read
  escapes,      \* history: the positions at which the scanner skipped a "%%"
  iters,        \* history: the loop iterations run so far, scanner and driver
  heap,         \* the marker list's storage: "none", "live", "freed"
  p,            \* the driver's p
  spec_idx,     \* the driver's spec_idx
  spec_count,   \* the driver's spec_count
  struct_count, \* the driver's struct_count
  stdoutBuf,    \* what has been written to stdout
  fileBuf,      \* what has been written to the stream
  args,         \* the arguments taken from the va_list so far, with the type asked for
  stores,       \* the values stored through %n pointers so far
  calls,        \* history: the return values of the display functions invoked
  path,         \* history: the branch a driver took at each position it visited
  first,        \* the outcome of the stdout call a stream call is compared with
  result        \* the value returned (meaningful once pc is "newline" or "done")

vars == <<api, format, file, first, tail, past, pc, sp, specs, starts, escapes, iters, heap, p, spec_idx,
          spec_count, struct_count, stdoutBuf, fileBuf, args, stores, calls, path, result>>

scanVars == <<sp, specs, starts, escapes, tail, past>>
driveVars == <<p, spec_idx, spec_count, struct_count, args, stores, calls, path>>

\* no earlier call to compare with
NoFirst ==
  [done |-> FALSE, api |-> "none", args |-> <<>>, stores |-> <<>>, sink |-> <<>>,
   path |-> <<>>, result |-> 0]

Init ==
  /\ api \in Apis
  /\ format \in Formats
  /\ file \in IF api \in StreamApis THEN {NULLPTR, "FILE"} ELSE {"unused"}
  /\ tail = <<>>
  /\ past = FALSE
  /\ pc = "call"
  /\ sp = 1
  /\ specs = <<>>
  /\ starts = <<>>
  /\ escapes = {}
  /\ iters = 0
  /\ heap = "none"
  /\ p = 1
  /\ spec_idx = 0
  /\ spec_count = 0
  /\ struct_count = 0
  /\ stdoutBuf = <<>>
  /\ fileBuf = <<>>
  /\ args = <<>>
  /\ stores = <<>>
  /\ calls = <<>>
  /\ path = <<>>
  /\ first = NoFirst
  /\ result = 0

\* where control goes when the render returns: display_vprintln and
\* display_vfprintln go on to their newline, every other entry point returns
\* the render's value (va_start and va_end change nothing that is modelled)
AfterRender(a) == IF a \in LineApis THEN "newline" ELSE "done"

(***************************************************************************)
(* display_vprint / display_vfprint: entry, lines 351-357 and 522-528.     *)
(***************************************************************************)
\* if (!format) return -1;
VPrintRejects(fmt) == fmt.null

\* an entry test that forgets the stream
VFPrintRejectsFormatOnly(fmt, f) == fmt.null

\* if (!format || !file) return -1;
VFPrintRejects(fmt, f) == fmt.null \/ f = NULLPTR

VPrintEnter ==
  /\ pc = "call"
  /\ api \in StdoutApis
  /\ IF VPrintRejects(format)
       THEN /\ result' = -1
            /\ pc' = AfterRender(api)
            /\ UNCHANGED heap
       ELSE /\ pc' = "scan"
            /\ heap' = "live"
            /\ UNCHANGED result
  /\ UNCHANGED <<iters, api, format, file, first, scanVars, driveVars, stdoutBuf, fileBuf>>

VFPrintEnter ==
  /\ pc = "call"
  /\ api \in StreamApis
  /\ IF VFPrintRejects(format, file)
       THEN /\ result' = -1
            /\ pc' = AfterRender(api)
            /\ UNCHANGED heap
       ELSE /\ pc' = "scan"
            /\ heap' = "live"
            /\ UNCHANGED result
  /\ UNCHANGED <<iters, api, format, file, first, scanVars, driveVars, stdoutBuf, fileBuf>>

(***************************************************************************)
(* find_format_specifiers: one iteration of its loop, lines 181-345.       *)
(***************************************************************************)
ScanMem == Memory(format.text, tail)

\* the byte at p, or the one after it in the test for "%%", is unmapped memory
ScanFault ==
  /\ pc = "scan"
  /\ \/ At(ScanMem, sp) = OOB
     \/ At(ScanMem, sp) = "%" /\ At(ScanMem, sp + 1) = OOB /\ past
  /\ pc' = "crashed"
  /\ UNCHANGED <<iters, api, format, file, first, scanVars, heap, driveVars, stdoutBuf, fileBuf, result>>

\* the byte at p is the terminator: the loop ends and specs is returned
ScanEnd ==
  /\ pc = "scan"
  /\ At(ScanMem, sp) = NUL
  /\ pc' = "drive"
  /\ UNCHANGED <<iters, api, format, file, first, scanVars, heap, driveVars, stdoutBuf, fileBuf, result>>

\* Skip %%
ScanEscape ==
  /\ pc = "scan"
  /\ At(ScanMem, sp) = "%"
  /\ At(ScanMem, sp + 1) = "%"
  /\ sp' = sp + 2
  /\ escapes' = escapes \cup {sp}
  /\ iters' = iters + 1
  /\ UNCHANGED <<api, format, file, first, tail, past, pc, specs, starts, heap, driveVars,
                 stdoutBuf, fileBuf, result>>

\* a '%' not followed by '%': parse the marker, resolve its type, append it
ScanMarker ==
  /\ pc = "scan"
  /\ At(ScanMem, sp) = "%"
  /\ At(ScanMem, sp + 1) \notin {"%", OOB}
  /\ \E g \in TailChoices :
       LET m == Memory(format.text, IF past THEN tail ELSE g)
           r == ParseMarker(m, sp)
           over == r.last > Len(format.text) + 1
           type == ResolveType(r.length, r.specifier)
       IN /\ past => g = tail
          /\ (~past /\ ~over) => g = <<>>
          /\ past' = (past \/ over)
          /\ tail' = IF past \/ over THEN (IF past THEN tail ELSE g) ELSE tail
          /\ IF r.fault
               THEN /\ pc' = "crashed"
                    /\ UNCHANGED <<sp, specs, starts, iters>>
               ELSE /\ pc' = pc
                    /\ sp' = r.next
                    /\ iters' = iters + 1
                    /\ IF r.ok /\ type # "-1"
                         THEN /\ specs' = Append(specs, [substr |-> r.substr, type |-> type])
                              /\ starts' = Append(starts, sp)
                         ELSE UNCHANGED <<specs, starts>>
  /\ UNCHANGED <<api, format, file, first, escapes, heap, driveVars, stdoutBuf, fileBuf, result>>

\* any other character: p++
ScanLiteral ==
  /\ pc = "scan"
  /\ At(ScanMem, sp) \notin {"%", NUL, OOB}
  /\ sp' = sp + 1
  /\ iters' = iters + 1
  /\ UNCHANGED <<api, format, file, first, tail, past, pc, specs, starts, escapes, heap, driveVars,
                 stdoutBuf, fileBuf, result>>

(***************************************************************************)
(* Pieces both drivers use.                                                *)
(***************************************************************************)
DriveMem == Memory(format.text, tail)

\* a return that forgets the opaque fields
ReturnValueNativeOnly(sc, st) == sc

\* return spec_count + struct_count;
ReturnValue(sc, st) == sc + st

\* a stored count that includes the %n being processed
WriteCountValueInclusive(sc, st) == sc + st + 1

\* the value a "Reference %n" case stores: spec_count + struct_count
WriteCountValue(sc, st) == sc + st

\* p += strlen(specs.data[spec_idx].substr);
AfterMarker(pos, substr) == pos + Len(substr)

\* a validity test that forgets the self pointer
InvalidForStdoutNoSelf(d) == d.null \/ d.display_fn = NULLPTR

\* if (!d || !d->display_fn || !d->self)
InvalidForStdout(d) == d.null \/ d.display_fn = NULLPTR \/ d.self = NULLPTR

\* a stream test that forgets the self pointer
InvalidForStreamNoSelf(d) == d.null \/ d.fdisplay_fn = NULLPTR

\* if (!d || !d->fdisplay_fn || !d->self)
InvalidForStream(d) == d.null \/ d.fdisplay_fn = NULLPTR \/ d.self = NULLPTR

\* if (d->display_fn(d->self) == -1)
RenderFailed(ret) == ret = -1

\* a line variant that ends the line whatever the render returned
EmitsNewlineAlways(r) == TRUE

\* if (result != -1) putchar('\n');
EmitsNewline(r) == r # -1

(***************************************************************************)
(* display_vprint: one iteration of its loop, lines 359-492.                        *)
(***************************************************************************)
\* a native marker and an entry left in the marker list: the switch on its type
VPrintNative ==
  /\ pc = "drive"
  /\ api \in StdoutApis
  /\ At(DriveMem, p) = "%"
  /\ At(DriveMem, p + 1) # "%"
  /\ spec_idx < Len(specs)
  /\ LET e == specs[spec_idx + 1]
         ct == VaType(e.type)
     IN /\ IF ~ConsumesArg(e.type)
             THEN UNCHANGED <<args, stores, stdoutBuf>>
             ELSE \E v \in ArgValues(ct) :
                    /\ args' = Append(args, [ctype |-> ct, val |-> v])
                    /\ IF IsWriteCount(e.type)
                         THEN /\ stores' = Append(stores, WriteCountValue(spec_count, struct_count))
                              /\ UNCHANGED stdoutBuf
                         ELSE /\ stdoutBuf' = stdoutBuf \o Printf(e.substr, ct, v)
                              /\ UNCHANGED stores
        /\ p' = AfterMarker(p, e.substr)
  /\ spec_idx' = spec_idx + 1
  /\ spec_count' = spec_count + 1
  /\ iters' = iters + 1
  /\ path' = Append(path, [at |-> p, branch |-> "native"])
  /\ UNCHANGED <<api, format, file, first, scanVars, heap, pc, struct_count, calls, fileBuf, result>>

\* a '%' not followed by '%' and the marker list exhausted: the character is copied
VPrintFallback ==
  /\ pc = "drive"
  /\ api \in StdoutApis
  /\ At(DriveMem, p) = "%"
  /\ At(DriveMem, p + 1) # "%"
  /\ spec_idx >= Len(specs)
  /\ stdoutBuf' = Append(stdoutBuf, At(DriveMem, p))
  /\ p' = p + 1
  /\ iters' = iters + 1
  /\ path' = Append(path, [at |-> p, branch |-> "fallback"])
  /\ UNCHANGED <<api, format, file, first, scanVars, heap, pc, spec_idx, spec_count, struct_count,
                 args, stores, calls, fileBuf, result>>

\* "%%": one '%' is written
VPrintEscape ==
  /\ pc = "drive"
  /\ api \in StdoutApis
  /\ At(DriveMem, p) = "%"
  /\ At(DriveMem, p + 1) = "%"
  /\ stdoutBuf' = Append(stdoutBuf, "%")
  /\ p' = p + 2
  /\ iters' = iters + 1
  /\ path' = Append(path, [at |-> p, branch |-> "escape"])
  /\ UNCHANGED <<api, format, file, first, scanVars, heap, pc, spec_idx, spec_count, struct_count,
                 args, stores, calls, fileBuf, result>>

\* "{}": a display_t * is taken from the va_list and asked to render itself
VPrintOpaque ==
  /\ pc = "drive"
  /\ api \in StdoutApis
  /\ At(DriveMem, p) = "{"
  /\ At(DriveMem, p + 1) = "}"
  /\ \E d \in DisplayArgs :
       /\ args' = Append(args, [ctype |-> "display_t *", val |-> d])
       /\ IF InvalidForStdout(d)
            THEN UNCHANGED <<stdoutBuf, calls, struct_count>>
            ELSE LET r == CallRender(d.display_fn)
                 IN /\ stdoutBuf' = stdoutBuf \o r.text
                    /\ calls' = Append(calls, r.ret)
                    /\ struct_count' = IF RenderFailed(r.ret) THEN struct_count
                                                              ELSE struct_count + 1
  /\ p' = p + 2
  /\ iters' = iters + 1
  /\ path' = Append(path, [at |-> p, branch |-> "opaque"])
  /\ UNCHANGED <<api, format, file, first, scanVars, heap, pc, spec_idx, spec_count, stores,
                 fileBuf, result>>

\* any other character is copied
VPrintLiteral ==
  /\ pc = "drive"
  /\ api \in StdoutApis
  /\ At(DriveMem, p) \notin {NUL, OOB, "%"}
  /\ ~(At(DriveMem, p) = "{" /\ At(DriveMem, p + 1) = "}")
  /\ stdoutBuf' = Append(stdoutBuf, At(DriveMem, p))
  /\ p' = p + 1
  /\ iters' = iters + 1
  /\ path' = Append(path, [at |-> p, branch |-> "literal"])
  /\ UNCHANGED <<api, format, file, first, scanVars, heap, pc, spec_idx, spec_count, struct_count,
                 args, stores, calls, fileBuf, result>>

\* the terminator: the marker list is freed and the count returned
VPrintReturn ==
  /\ pc = "drive"
  /\ api \in StdoutApis
  /\ At(DriveMem, p) = NUL
  /\ heap' = "freed"
  /\ result' = ReturnValue(spec_count, struct_count)
  /\ pc' = AfterRender(api)
  /\ UNCHANGED <<iters, api, format, file, first, scanVars, driveVars, stdoutBuf, fileBuf>>

(***************************************************************************)
(* display_vfprint: one iteration of its loop, lines 530-668.                       *)
(***************************************************************************)
\* a native marker and an entry left in the marker list: the switch on its type
VFPrintNative ==
  /\ pc = "drive"
  /\ api \in StreamApis
  /\ At(DriveMem, p) = "%"
  /\ At(DriveMem, p + 1) # "%"
  /\ spec_idx < Len(specs)
  /\ LET e == specs[spec_idx + 1]
         ct == VaType(e.type)
     IN /\ IF ~ConsumesArg(e.type)
             THEN UNCHANGED <<args, stores, fileBuf>>
             ELSE \E v \in ArgValues(ct) :
                    /\ args' = Append(args, [ctype |-> ct, val |-> v])
                    /\ IF IsWriteCount(e.type)
                         THEN /\ stores' = Append(stores, WriteCountValue(spec_count, struct_count))
                              /\ UNCHANGED fileBuf
                         ELSE /\ fileBuf' = fileBuf \o Printf(e.substr, ct, v)
                              /\ UNCHANGED stores
        /\ p' = AfterMarker(p, e.substr)
  /\ spec_idx' = spec_idx + 1
  /\ spec_count' = spec_count + 1
  /\ iters' = iters + 1
  /\ path' = Append(path, [at |-> p, branch |-> "native"])
  /\ UNCHANGED <<api, format, file, first, scanVars, heap, pc, struct_count, calls, stdoutBuf, result>>

\* a '%' not followed by '%' and the marker list exhausted: the character is copied
VFPrintFallback ==
  /\ pc = "drive"
  /\ api \in StreamApis
  /\ At(DriveMem, p) = "%"
  /\ At(DriveMem, p + 1) # "%"
  /\ spec_idx >= Len(specs)
  /\ fileBuf' = Append(fileBuf, At(DriveMem, p))
  /\ p' = p + 1
  /\ iters' = iters + 1
  /\ path' = Append(path, [at |-> p, branch |-> "fallback"])
  /\ UNCHANGED <<api, format, file, first, scanVars, heap, pc, spec_idx, spec_count, struct_count,
                 args, stores, calls, stdoutBuf, result>>

\* "%%": one '%' is written
VFPrintEscape ==
  /\ pc = "drive"
  /\ api \in StreamApis
  /\ At(DriveMem, p) = "%"
  /\ At(DriveMem, p + 1) = "%"
  /\ fileBuf' = Append(fileBuf, "%")
  /\ p' = p + 2
  /\ iters' = iters + 1
  /\ path' = Append(path, [at |-> p, branch |-> "escape"])
  /\ UNCHANGED <<api, format, file, first, scanVars, heap, pc, spec_idx, spec_count, struct_count,
                 args, stores, calls, stdoutBuf, result>>

\* "{}": a display_t * is taken from the va_list and asked to render itself
VFPrintOpaque ==
  /\ pc = "drive"
  /\ api \in StreamApis
  /\ At(DriveMem, p) = "{"
  /\ At(DriveMem, p + 1) = "}"
  /\ \E d \in DisplayArgs :
       /\ args' = Append(args, [ctype |-> "display_t *", val |-> d])
       /\ IF InvalidForStream(d)
            THEN UNCHANGED <<fileBuf, calls, struct_count>>
            ELSE LET r == CallRender(d.fdisplay_fn)
                 IN /\ fileBuf' = fileBuf \o r.text
                    /\ calls' = Append(calls, r.ret)
                    /\ struct_count' = IF RenderFailed(r.ret) THEN struct_count
                                                              ELSE struct_count + 1
  /\ p' = p + 2
  /\ iters' = iters + 1
  /\ path' = Append(path, [at |-> p, branch |-> "opaque"])
  /\ UNCHANGED <<api, format, file, first, scanVars, heap, pc, spec_idx, spec_count, stores,
                 stdoutBuf, result>>

\* any other character is copied
VFPrintLiteral ==
  /\ pc = "drive"
  /\ api \in StreamApis
  /\ At(DriveMem, p) \notin {NUL, OOB, "%"}
  /\ ~(At(DriveMem, p) = "{" /\ At(DriveMem, p + 1) = "}")
  /\ fileBuf' = Append(fileBuf, At(DriveMem, p))
  /\ p' = p + 1
  /\ iters' = iters + 1
  /\ path' = Append(path, [at |-> p, branch |-> "literal"])
  /\ UNCHANGED <<api, format, file, first, scanVars, heap, pc, spec_idx, spec_count, struct_count,
                 args, stores, calls, stdoutBuf, result>>

\* the terminator: the marker list is freed and the count returned
VFPrintReturn ==
  /\ pc = "drive"
  /\ api \in StreamApis
  /\ At(DriveMem, p) = NUL
  /\ heap' = "freed"
  /\ result' = ReturnValue(spec_count, struct_count)
  /\ pc' = AfterRender(api)
  /\ UNCHANGED <<iters, api, format, file, first, scanVars, driveVars, stdoutBuf, fileBuf>>

(***************************************************************************)
(* display_vprintln / display_vfprintln, lines 495-501 and 671-677: what   *)
(* follows the render.                                                     *)
(***************************************************************************)
VPrintln ==
  /\ pc = "newline"
  /\ api \in StdoutApis
  /\ stdoutBuf' = IF EmitsNewline(result) THEN Append(stdoutBuf, "\n") ELSE stdoutBuf
  /\ pc' = "done"
  /\ UNCHANGED <<iters, api, format, file, first, scanVars, heap, driveVars, fileBuf, result>>

VFPrintln ==
  /\ pc = "newline"
  /\ api \in StreamApis
  /\ fileBuf' = IF EmitsNewline(result) THEN Append(fileBuf, "\n") ELSE fileBuf
  /\ pc' = "done"
  /\ UNCHANGED <<iters, api, format, file, first, scanVars, heap, driveVars, stdoutBuf, result>>

Next ==
  \/ VPrintEnter \/ VFPrintEnter
  \/ ScanFault \/ ScanEnd \/ ScanEscape \/ ScanMarker \/ ScanLiteral
  \/ VPrintNative \/ VPrintFallback \/ VPrintEscape \/ VPrintOpaque \/ VPrintLiteral
  \/ VPrintReturn
  \/ VFPrintNative \/ VFPrintFallback \/ VFPrintEscape \/ VFPrintOpaque \/ VFPrintLiteral
  \/ VFPrintReturn
  \/ VPrintln \/ VFPrintln

Spec == Init /\ [][Next]_vars

(***************************************************************************)
(* One template rendered twice by its caller: first through a stdout entry *)
(* point, then through the stream entry point of the same name, with a     *)
(* stream that is not null.  The template's memory (format, tail) is the   *)
(* same for both calls; what the first call wrote to stdout stays written. *)
(***************************************************************************)
StreamCounterpart(a) ==
  CASE a = "display_vprint" -> "display_vfprint"
    [] a = "display_vprintln" -> "display_vfprintln"
    [] a = "display_print" -> "display_fprint"
    [] a = "display_println" -> "display_fprintln"

SecondCall ==
  /\ pc = "done"
  /\ api \in StdoutApis
  /\ ~first.done
  /\ first' = [done |-> TRUE, api |-> api, args |-> args, stores |-> stores,
               sink |-> stdoutBuf, path |-> path, result |-> result]
  /\ api' = StreamCounterpart(api)
  /\ file' = "FILE"
  /\ pc' = "call"
  /\ sp' = 1
  /\ specs' = <<>>
  /\ starts' = <<>>
  /\ escapes' = {}
  /\ iters' = 0
  /\ heap' = "none"
  /\ p' = 1
  /\ spec_idx' = 0
  /\ spec_count' = 0
  /\ struct_count' = 0
  /\ args' = <<>>
  /\ stores' = <<>>
  /\ calls' = <<>>
  /\ path' = <<>>
  /\ result' = 0
  /\ UNCHANGED <<format, tail, past, stdoutBuf, fileBuf>>

PairInit == Init /\ api \in StdoutApis

PairNext == Next \/ SecondCall

PairSpec == PairInit /\ [][PairNext]_vars

(***************************************************************************)
(* Vocabulary of the properties.                                           *)
(***************************************************************************)
\* the sink of the entry point called
Sink == IF api \in StdoutApis THEN stdoutBuf ELSE fileBuf
SinkNext == IF api \in StdoutApis THEN stdoutBuf' ELSE fileBuf'

\* the render ran to its return statement
Rendered == heap = "freed"

\* a line variant has run its last statements
LineEnded == api \in LineApis /\ pc = "done"

\* the call was refused at entry
Refused == format.null \/ (api \in StreamApis /\ file = NULLPTR)

\* the text of t from position i on starts with sub
StartsWithAt(t, i, sub) ==
  /\ i + Len(sub) - 1 <= Len(t)
  /\ \A k \in 1..Len(sub) : t[i + k - 1] = sub[k]

\* a driver step that used an entry of the marker list
NativeStep == pc = "drive" /\ spec_idx' = spec_idx + 1

\* C1: whenever a driver formats a native field with marker-list entry i, the
\* template text at the driver's position is exactly entry i's source
\* substring, read by the scanner at that very position -- for every
\* template, malformed markers followed by well-formed ones included.
\* (Stated for the runs in which every read stayed inside the template, so
\* that what fails is the scanner and the driver on their own.)
C1_Synchronized ==
  [][(NativeStep /\ ~past) =>
       /\ StartsWithAt(format.text, p, specs[spec_idx + 1].substr)
       /\ starts[spec_idx + 1] = p]_vars

\* C1, the case the code gets wrong: "%k%d" has been rendered
Template_k_d == <<"%", "k", "%", "d">>
C1_Reached ==
  /\ Rendered
  /\ format.text = Template_k_d
  /\ Sink = <<"5", "%", "d">>

\* the display functions invoked so far that did not return -1
SuccessfulRenders == Cardinality({i \in DOMAIN calls : calls[i] # -1})

Scenario1Args ==
  <<[ctype |-> "int", val |-> 5],
    [ctype |-> "char *", val |-> <<"o", "k">>],
    [ctype |-> "display_t *", val |-> DisplayStruct("render_ok", "render_ok", "obj")]>>
Scenario1Output == <<"5", "-", "o", "k", " ", "O", "K", " ", "e", "n", "d">>

RECURSIVE ExpectedArgTypes(_)
\* the argument types the template asks for, in template order, from position
\* i on: one per marker the scanner classified with a tag other than the
\* no-argument tag, one display_t * per "{}"
ExpectedArgTypes(i) ==
  IF i > Len(format.text) THEN <<>>
  ELSE LET here ==
             IF \E k \in DOMAIN starts : starts[k] = i /\ specs[k].type # "TYPE_NONE"
               THEN <<VaType(specs[CHOOSE k \in DOMAIN starts : starts[k] = i].type)>>
             ELSE IF format.text[i] = "{" /\ At(format.text, i + 1) = "}"
               THEN <<"display_t *">>
             ELSE <<>>
       IN here \o ExpectedArgTypes(i + 1)

ArgTypes == [k \in DOMAIN args |-> args[k].ctype]

\* C3: the cursor advances exactly once per native marker whose tag is not
\* the no-argument tag and exactly once per "{}", in template order; literal
\* text, "%%" and a fallback '%' take nothing.
\* (Stated for the runs in which every read stayed inside the template.)
C3_OneArgPerMarker ==
  (Rendered /\ ~past) => ArgTypes = ExpectedArgTypes(1)

\* C3, the case the code gets wrong: "%{}%5d" rendered with one argument taken
Template_opaque_5d == <<"%", "{", "}", "%", "5", "d">>
C3_Reached ==
  /\ Rendered
  /\ format.text = Template_opaque_5d
  /\ Len(args) = 1

\* C4: every "%%" the scanner skips is reached by the driver, which there
\* writes exactly one '%', takes no argument, leaves the counts alone and
\* moves on by two characters -- wherever the "%%" stands, after a malformed
\* marker included; "100%% done" writes "100% done" and returns 0.
\* (Stated for the runs in which every read stayed inside the template.)
C4_EscapeYieldsPercent ==
  [][(pc = "drive" /\ ~past) =>
       /\ \A j \in escapes :
            (p <= j /\ p' > j) =>
              /\ p = j
              /\ p' = j + 2
              /\ SinkNext = Append(Sink, "%")
              /\ args' = args
              /\ spec_count' = spec_count
              /\ struct_count' = struct_count
       /\ (format.text = Scenario2 /\ pc' # "drive") =>
            (SinkNext = <<"1", "0", "0", "%", " ", "d", "o", "n", "e">> /\ result' = 0)]_vars

\* C4, the case the code gets wrong: "%k%%%5d" has been rendered
Template_k_esc_5d == <<"%", "k", "%", "%", "%", "5", "d">>
C4_Reached ==
  /\ Rendered
  /\ format.text = Template_k_esc_5d
  /\ escapes = {3}

\* a '%' of t that is not followed by '%' and starts a marker the grammar
\* accepts inside t
StartsMarker(t, i) ==
  /\ t[i] = "%"
  /\ At(t, i + 1) # "%"
  /\ LET r == ParseMarker(Memory(t, <<>>), i)
     IN r.ok /\ r.specifier # NUL

\* t holds neither a conversion marker nor a "{}" (nor a "%%", which is
\* written as one character)
PlainTemplate(t) ==
  \A i \in 1..Len(t) :
    /\ ~StartsMarker(t, i)
    /\ ~(t[i] = "{" /\ At(t, i + 1) = "}")
    /\ ~(t[i] = "%" /\ At(t, i + 1) = "%")

\* C5: a template with no conversion marker and no "{}" -- its '%' characters
\* all belong to malformed markers or are a trailing '%' -- is written
\* character for character and 0 is returned.
C5_PlainVerbatim ==
  (Rendered /\ PlainTemplate(format.text) /\ ~LineEnded) =>
    (Sink = format.text /\ result = 0)

\* C5, the case the code gets wrong: a template that ends in '%' was rendered
\* after the scanner read past its terminator
C5_Reached ==
  /\ Rendered
  /\ format.text = <<"%">>
  /\ past
  /\ result = 1

\* a driver step that took a display_t * from the va_list
OpaqueStep ==
  /\ pc = "drive"
  /\ Len(args') = Len(args) + 1
  /\ args'[Len(args')].ctype = "display_t *"

\* the function pointer of d that the active sink needs
SinkFn(d) == IF api \in StdoutApis THEN d.display_fn ELSE d.fdisplay_fn

\* d cannot be rendered to the active sink, or its render fails
Unrenderable(d) ==
  \/ d.null
  \/ SinkFn(d) = NULLPTR
  \/ d.self = NULLPTR
  \/ SinkFn(d) = "render_fail"

\* C6: a "{}" whose value is null, lacks the function pointer of the active
\* sink, lacks its self pointer, or whose display function returns -1 leaves
\* the sink and the counts as they were and the driver goes on after the
\* "{}", the call never returning failure for it; a valid value whose function
\* succeeds writes its rendering and adds exactly 1 to the count.
C6_OpaqueSkipOrCount ==
  [][OpaqueStep =>
       LET d == args'[Len(args')].val
       IN /\ p' = p + 2
          /\ pc' = "drive"
          /\ spec_count' = spec_count
          /\ IF Unrenderable(d)
               THEN /\ SinkNext = Sink
                    /\ struct_count' = struct_count
               ELSE /\ SinkNext = Sink \o <<"O", "K">>
                    /\ struct_count' = struct_count + 1]_vars
    /\ [](Rendered => result >= 0)

C6_Witness ==
  /\ Rendered
  /\ format.text = <<"{", "}", "{", "}">>
  /\ args[1].val = DisplayStruct("render_ok", "render_ok", NULLPTR)
  /\ args[2].val = DisplayStruct("render_ok", "render_ok", "obj")
  /\ Sink = <<"O", "K">>
  /\ result = 1

\* C7: display_vprint with a null template, and display_vfprint with a null
\* template or a null stream, return -1 at once: nothing is written, no
\* argument is taken, the scanner does not run and no marker list exists.
C7_RefusedNoEffect ==
  (Refused /\ pc # "call") =>
    /\ pc \in {"newline", "done"}
    /\ result = -1
    /\ stdoutBuf = <<>>
    /\ fileBuf = <<>>
    /\ args = <<>>
    /\ stores = <<>>
    /\ heap = "none"
    /\ sp = 1
    /\ specs = <<>>

C7_Witness ==
  /\ pc = "done"
  /\ api = "display_vfprint"
  /\ ~format.null
  /\ file = NULLPTR
  /\ result = -1

\* C8: a line variant writes exactly one newline, after everything the
\* render wrote, if and only if the render did not return -1; it returns the
\* render's value unchanged and writes nothing at all when the render failed.
C8_LineNewline ==
  [][pc = "newline" =>
       /\ pc' = "done"
       /\ result' = result
       /\ IF result # -1
            THEN /\ SinkNext = Append(Sink, "\n")
                 /\ \A i \in DOMAIN Sink : Sink[i] # "\n"
            ELSE /\ stdoutBuf' = <<>>
                 /\ fileBuf' = <<>>]_vars

C8_Witness ==
  /\ pc = "done"
  /\ api = "display_fprintln"
  /\ format.text = <<"{", "}">>
  /\ result = 1
  /\ fileBuf = <<"O", "K", "\n">>
  /\ stdoutBuf = <<>>

\* C9: the scanner and the drivers stop on every template: every iteration
\* of either loop moves its position strictly forward, also past a marker
\* with no recognized conversion letter, and the positions never leave the
\* mapped memory, which is finite.
C9_Terminates ==
  /\ [][/\ (pc = "scan" /\ iters' # iters) => sp' > sp
        /\ (pc = "drive" /\ iters' # iters) => p' > p]_vars
  /\ [](sp <= Len(ScanMem) + 1 /\ p <= Len(DriveMem) + 1)

C9_Witness ==
  /\ pc = "done"
  /\ format.text = <<"%", "5", "k">>
  /\ specs = <<>>
  /\ Sink = <<"%", "5", "k">>
  /\ result = 0

\* the rows of the table the type of an integer marker is read from, in the
\* order: no modifier, hh, h, l, ll, j, z, t
LengthRow(length) ==
  CASE length = <<>> -> 1
    [] length = <<"h", "h">> -> 2
    [] length = <<"h">> -> 3
    [] length = <<"l">> -> 4
    [] length = <<"l", "l">> -> 5
    [] length = <<"j">> -> 6
    [] length = <<"z">> -> 7
    [] length = <<"t">> -> 8
    [] OTHER -> 0

SignedColumn ==
  <<"TYPE_INT", "TYPE_SIGNED_INT8", "TYPE_SHORT", "TYPE_LONG", "TYPE_LONG_LONG",
    "TYPE_INTMAX_T", "TYPE_SSIZE_T", "TYPE_PTRDIFF_T">>
WriteCountColumn ==
  <<"TYPE_POINTER_INT", "TYPE_POINTER_SIGNED_INT8", "TYPE_POINTER_SHORT",
    "TYPE_POINTER_LONG", "TYPE_POINTER_LONG_LONG", "TYPE_POINTER_INTMAX_T",
    "TYPE_POINTER_SSIZE_T", "TYPE_POINTER_PTRDIFF_T">>
UnsignedColumn ==
  <<"TYPE_UINT", "TYPE_UINT8", "TYPE_USHORT", "TYPE_ULONG", "TYPE_ULONG_LONG",
    "TYPE_UINTMAX_T", "TYPE_SIZE_T">>

EmittedTags == var_type \ {"TYPE_FLOAT"}

\* the tags the table allows a marker with this length modifier and
\* conversion letter; unsignedT is what it allows o/u/x/X with the modifier t.
\* Where the table is silent (a modifier outside its rows) any emitted tag is
\* allowed.
TableTags(length, c, unsignedT) ==
  LET row == LengthRow(length)
  IN IF c \in {"d", "i"} THEN (IF row = 0 THEN EmittedTags ELSE {SignedColumn[row]})
     ELSE IF c \in {"o", "u", "x", "X"}
       THEN (IF row = 0 THEN EmittedTags
             ELSE IF row = 8 THEN unsignedT ELSE {UnsignedColumn[row]})
     ELSE IF c = "n" THEN (IF row = 0 THEN EmittedTags ELSE {WriteCountColumn[row]})
     ELSE IF c \in {"e", "E", "f", "F", "g", "G", "a", "A"}
       THEN (IF length = <<"L">> THEN {"TYPE_LONG_DOUBLE"} ELSE {"TYPE_DOUBLE"})
     ELSE IF c = "p" THEN {"TYPE_POINTER"}
     ELSE IF c = "s" THEN {"TYPE_STRING"}
     ELSE IF c = "c" THEN {"TYPE_INT"}
     ELSE IF c = "%" THEN {"TYPE_NONE"}
     ELSE EmittedTags

\* a scanner iteration that parsed a marker
MarkerIteration ==
  /\ pc = "scan"
  /\ iters' # iters
  /\ At(ScanMem, sp) = "%"
  /\ At(ScanMem, sp + 1) # "%"

\* in every scanner iteration that parsed a marker: an accepted marker adds
\* exactly one entry, whose tag the table allows, and a marker that is not
\* accepted adds none
TagsFollowTable(unsignedT) ==
  MarkerIteration =>
    LET r == ParseMarker(Memory(format.text, tail'), sp)
    IN IF r.ok
         THEN /\ Len(specs') = Len(specs) + 1
              /\ SubSeq(specs', 1, Len(specs)) = specs
              /\ specs'[Len(specs')].type \in TableTags(r.length, r.specifier, unsignedT)
              /\ specs'[Len(specs')].type \in EmittedTags
         ELSE specs' = specs

C11_NoMixedPair ==
  [][(MarkerIteration /\ Len(specs') = Len(specs) + 1) =>
       LET r == ParseMarker(Memory(format.text, tail'), sp)
       IN Len(r.length) = 2 => r.length[1] = r.length[2]]_vars

\* C11, the case the code gets wrong: "%hld" listed whole, as an int marker
Template_hld == <<"%", "h", "l", "d">>
C11_Reached ==
  /\ pc = "drive"
  /\ format.text = Template_hld
  /\ specs = <<[substr |-> Template_hld, type |-> "TYPE_INT"]>>

\* a driver step that used a write-count entry of the marker list
WriteCountStep == NativeStep /\ IsWriteCount(specs[spec_idx + 1].type)

Template_d_n_opaque == <<"%", "d", "{", "}", "%", "n", "{", "}">>

\* C12: a driver step on a write-count entry (%n with any length modifier)
\* takes one argument, a pointer to the integer type of the entry, stores
\* through it the number of marker-list entries used before this one plus the
\* number of display functions that returned other than -1 before it, and
\* writes nothing to either sink; the entry adds one to the native count, so
\* a finished render returns at least the number of such stores; and
\* "%d{}%n{}" with two values that render stores 2 and returns 4.
C12_WriteCount ==
  /\ [][WriteCountStep =>
          /\ Len(args') = Len(args) + 1
          /\ SubSeq(args', 1, Len(args)) = args
          /\ args'[Len(args')].ctype = VaType(specs[spec_idx + 1].type)
          /\ args'[Len(args')].ctype \in
               {"int *", "signed char *", "short *", "long *", "long long *",
                "intmax_t *", "ssize_t *", "ptrdiff_t *"}
          /\ stores' = Append(stores, spec_idx + SuccessfulRenders)
          /\ stdoutBuf' = stdoutBuf
          /\ fileBuf' = fileBuf
          /\ spec_count' = spec_count + 1
          /\ struct_count' = struct_count]_vars
  /\ [](Rendered => result >= Len(stores))
  /\ []((Rendered /\ format.text = Template_d_n_opaque /\ SuccessfulRenders = 2)
          => (stores = <<2>> /\ result = 4))

C12_Witness ==
  /\ Rendered
  /\ api = "display_vfprint"
  /\ format.text = Template_d_n_opaque
  /\ stores = <<2>>
  /\ args[3].ctype = "int *"
  /\ fileBuf = <<"5", "O", "K", "O", "K">>
  /\ stdoutBuf = <<>>
  /\ result = 4

\* C13: for every NUL-terminated template neither the scanner nor a driver
\* moves its position past the terminator or reads a character beyond it,
\* also for a template that ends in a lone '%' or in an incomplete marker
\* ("%-", "%5", "%.3", "%l").
C13_InBounds ==
  /\ ~past
  /\ sp <= Len(format.text) + 1
  /\ p <= Len(format.text) + 1

\* C13, the case the code gets wrong: the template "%", the scanner's
\* position beyond the terminator
C13_Reached ==
  /\ format.text = <<"%">>
  /\ past
  /\ sp > Len(format.text) + 1

\* the stream call was given the argument list of the stdout call: wherever
\* both took an argument of the same type at the same place in the list, they
\* got the same value
SameArgumentList ==
  \A k \in DOMAIN args \cap DOMAIN first.args :
    args[k].ctype = first.args[k].ctype => args[k].val = first.args[k].val

\* a display_t whose two display functions behave alike
BehaveAlike(d) == d.null \/ d.display_fn = d.fdisplay_fn

AlikeValues ==
  \A k \in DOMAIN first.args :
    first.args[k].ctype = "display_t *" => BehaveAlike(first.args[k].val)

\* C14: the stdout driver and the stream driver are the same machine: given
\* the same template, a stream that is not null, and the same argument list
\* whose display values have display functions that behave alike, the stream
\* call takes the same branch at every position, takes the same arguments in
\* the same order, stores the same counts, writes the same characters and
\* returns the same value as the stdout call; nor does it stop where the
\* stdout call went through.
C14_SameMachine ==
  /\ first.done => pc # "crashed"
  /\ (first.done /\ pc = "done" /\ SameArgumentList /\ AlikeValues) =>
       /\ path = first.path
       /\ args = first.args
       /\ stores = first.stores
       /\ fileBuf = first.sink
       /\ result = first.result

C14_Witness ==
  /\ first.done
  /\ pc = "done"
  /\ api = "display_vfprint"
  /\ format.text = Scenario1
  /\ args = Scenario1Args
  /\ first.args = Scenario1Args
  /\ Len(path) = 9
  /\ fileBuf = Scenario1Output
  /\ first.sink = Scenario1Output
  /\ result = 3
  /\ first.result = 3

====
